---- MODULE Spec2Model ----
(***************************************************************************)
(* Model of power-libperfmgr/Power.cpp: the Power HAL object, its init     *)
(* thread and its powerHint entry points.                                  *)
(*                                                                         *)
(* Spec      : every entry point runs to completion before the next one    *)
(*             starts (requests handled one at a time).                    *)
(* SpecConc  : binder threads run the handlers concurrently, one shared    *)
(*             memory access or HintManager call per step.                 *)
(* SpecStep  : the same steps with a single binder thread.                 *)
(***************************************************************************)
EXTENDS Integers, Sequences, FiniteSets, TLC

VARIABLES
    mReady,                  \* Power::mReady (std::atomic<bool>)
    mVRModeOn,               \* Power::mVRModeOn
    mSustainedPerfModeOn,    \* Power::mSustainedPerfModeOn
    mCameraStreamingModeOn,  \* Power::mCameraStreamingModeOn
    mHintManager,            \* TRUE once mHintManager is non-null
    mInteractionHandler,     \* TRUE once mInteractionHandler is non-null
    initPc,                  \* position of the detached mInitThread
    active,                  \* HintManager: names of the hints held until ended
    last,                    \* the request handled last (Spec), or NoRequest
    pre,                     \* flags, mReady and held hints when `last` started
    calls,                   \* calls issued by `last`, in order
    ihCalls,                 \* HintManager calls the InteractionHandler issued in it
    pc,                      \* SpecConc: position of each binder thread
    req,                     \* SpecConc: request each binder thread handles
    tlog                     \* SpecConc: calls and flag writes of that request, in order

vars == <<mReady, mVRModeOn, mSustainedPerfModeOn, mCameraStreamingModeOn,
          mHintManager, mInteractionHandler, initPc, active,
          last, pre, calls, ihCalls, pc, req, tlog>>

powerVars == <<mReady, mVRModeOn, mSustainedPerfModeOn, mCameraStreamingModeOn,
               mHintManager, mInteractionHandler, initPc, active>>
seqVars == <<last, pre, calls, ihCalls>>
concVars == <<pc, req, tlog>>

----------------------------------------------------------------------------
(* Bounds *)

\* payloads 0..MaxData are drawn besides -1 and the TPU sentinels
MaxData == 2
\* number of binder threads in SpecConc
NThreads == 2

----------------------------------------------------------------------------
(* Program constants *)

kTpuBoostStop == 1000
kTpuBoostShort == 1001
kTpuBoostLong == 1002
kTpuBoostDurationShortMs == 200
kTpuBoostDurationLongMs == 2000
\* DoHint("LAUNCH", std::chrono::milliseconds(2500))
kCameraLaunchBoostMs == 2500
\* DoHint("CAMERA_LAUNCH", std::chrono::seconds(1)), in milliseconds
kCameraTearDownBoostMs == 1000

\* PowerHint_1_0 values Power::powerHint can be handed; VSYNC stands for the
\* values its switch has no case for
PowerHint_1_0 == {"VSYNC", "INTERACTION", "LOW_POWER", "SUSTAINED_PERFORMANCE",
                  "VR_MODE", "LAUNCH"}
PowerHint_1_2 == PowerHint_1_0 \cup {"AUDIO_STREAMING", "AUDIO_LOW_LATENCY",
                  "CAMERA_LAUNCH", "CAMERA_STREAMING", "CAMERA_SHOT"}
PowerHint_1_3 == PowerHint_1_2 \cup {"EXPENSIVE_RENDERING"}

\* names handed to HintManager::DoHint / EndHint
HintNames == {"VR_MODE", "SUSTAINED_PERFORMANCE", "VR_SUSTAINED_PERFORMANCE",
              "LAUNCH", "AUDIO_LOW_LATENCY", "AUDIO_STREAMING", "TPU_BOOST",
              "CAMERA_LAUNCH", "CAMERA_STREAMING", "CAMERA_SHOT",
              "EXPENSIVE_RENDERING"}

\* trimmed content of scaling_governor; "" when the file cannot be read
Governors == {"schedutil", "sched", "performance", ""}

Payloads == {-1} \cup (0..MaxData) \cup {kTpuBoostStop, kTpuBoostShort, kTpuBoostLong}

EntryPoints == {"powerHint", "powerHintAsync", "powerHintAsync_1_2", "powerHintAsync_1_3"}

HintsOf(entry) ==
    CASE entry = "powerHint" -> PowerHint_1_0
      [] entry = "powerHintAsync" -> PowerHint_1_0
      [] entry = "powerHintAsync_1_2" -> PowerHint_1_2
      [] OTHER -> PowerHint_1_3

----------------------------------------------------------------------------
(* Calls the handlers issue *)

DoHint(name) == [op |-> "DoHint", name |-> name, arg |-> 0]
DoHintFor(name, ms) == [op |-> "DoHintFor", name |-> name, arg |-> ms]
EndHint(name) == [op |-> "EndHint", name |-> name, arg |-> 0]
Acquire(data) == [op |-> "Acquire", name |-> "INTERACTION", arg |-> data]
set_display_lpm(on) == [op |-> "set_display_lpm", name |-> "", arg |-> IF on THEN 1 ELSE 0]

\* HintManager: the effect of one call on the set of hints held active until
\* they are ended.  A request with a duration ends by itself and neither
\* creates nor ends such a hold; it is recorded in `calls` only.
\* Acquire reaches the InteractionHandler, which holds "INTERACTION" until
\* its timer expires.
ApplyCall(a, c) ==
    CASE c.op = "DoHint" -> a \cup {c.name}
      [] c.op = "EndHint" -> a \ {c.name}
      [] c.op = "Acquire" -> a \cup {"INTERACTION"}
      [] OTHER -> a

\* InteractionHandler::Acquire: the boost is activated when none is held; an
\* Acquire that finds it held re-arms the timer and issues nothing.
RECURSIVE InteractionHandlerCalls(_, _)
InteractionHandlerCalls(a, cs) ==
    IF cs = <<>> THEN <<>>
    ELSE (IF Head(cs).op = "Acquire" /\ "INTERACTION" \notin a
          THEN <<DoHint("INTERACTION")>> ELSE <<>>)
         \o InteractionHandlerCalls(ApplyCall(a, Head(cs)), Tail(cs))

RECURSIVE ApplyCalls(_, _)
ApplyCalls(a, cs) ==
    IF cs = <<>> THEN a ELSE ApplyCalls(ApplyCall(a, Head(cs)), Tail(cs))

----------------------------------------------------------------------------
(* The handlers, as functions of the flags s = [vr, sus, cam], the governor *)
(* read g and mReady; the result is the calls issued and the new flags.     *)

Ret(cs, s) == [calls |-> cs, s |-> s]

\* mutant: any governor that could be read is taken as supported
isSupportedGovernor_anyReadable(g) == g # ""

isSupportedGovernor(g) == g = "schedutil" \/ g = "sched"

\* mutant: the payload is not forwarded to the InteractionHandler
interactionCase_dropsPayload(data, s) ==
    IF s.vr \/ s.sus THEN Ret(<<>>, s) ELSE Ret(<<Acquire(0)>>, s)

\* case PowerHint_1_0::INTERACTION
interactionCase(data, s) ==
    IF s.vr \/ s.sus THEN Ret(<<>>, s) ELSE Ret(<<Acquire(data)>>, s)

\* mutant: entering the composed mode activates it before VR_MODE is ended
sustainedPerformanceCase_swapped(data, s) ==
    IF data # 0 /\ ~s.sus
    THEN Ret(IF ~s.vr THEN <<DoHint("SUSTAINED_PERFORMANCE")>>
             ELSE <<DoHint("VR_SUSTAINED_PERFORMANCE"), EndHint("VR_MODE")>>,
             [s EXCEPT !.sus = TRUE])
    ELSE IF data = 0 /\ s.sus
    THEN Ret(<<EndHint("VR_SUSTAINED_PERFORMANCE"), EndHint("SUSTAINED_PERFORMANCE")>>
             \o (IF s.vr THEN <<DoHint("VR_MODE")>> ELSE <<>>),
             [s EXCEPT !.sus = FALSE])
    ELSE Ret(<<>>, s)

\* case PowerHint_1_0::SUSTAINED_PERFORMANCE
sustainedPerformanceCase(data, s) ==
    IF data # 0 /\ ~s.sus
    THEN Ret(IF ~s.vr THEN <<DoHint("SUSTAINED_PERFORMANCE")>>
             ELSE <<EndHint("VR_MODE"), DoHint("VR_SUSTAINED_PERFORMANCE")>>,
             [s EXCEPT !.sus = TRUE])
    ELSE IF data = 0 /\ s.sus
    THEN Ret(<<EndHint("VR_SUSTAINED_PERFORMANCE"), EndHint("SUSTAINED_PERFORMANCE")>>
             \o (IF s.vr THEN <<DoHint("VR_MODE")>> ELSE <<>>),
             [s EXCEPT !.sus = FALSE])
    ELSE Ret(<<>>, s)

\* mutant: leaving VR mode does not end the composed hint
vrModeCase_keepsComposed(data, s) ==
    IF data # 0 /\ ~s.vr
    THEN Ret(IF ~s.sus THEN <<DoHint("VR_MODE")>>
             ELSE <<EndHint("SUSTAINED_PERFORMANCE"), DoHint("VR_SUSTAINED_PERFORMANCE")>>,
             [s EXCEPT !.vr = TRUE])
    ELSE IF data = 0 /\ s.vr
    THEN Ret(<<EndHint("VR_MODE")>>
             \o (IF s.sus THEN <<DoHint("SUSTAINED_PERFORMANCE")>> ELSE <<>>),
             [s EXCEPT !.vr = FALSE])
    ELSE Ret(<<>>, s)

\* mutant: an enable request is not checked against the flag
vrModeCase_reasserts(data, s) ==
    IF data # 0
    THEN Ret(IF ~s.sus THEN <<DoHint("VR_MODE")>>
             ELSE <<EndHint("SUSTAINED_PERFORMANCE"), DoHint("VR_SUSTAINED_PERFORMANCE")>>,
             [s EXCEPT !.vr = TRUE])
    ELSE IF data = 0 /\ s.vr
    THEN Ret(<<EndHint("VR_SUSTAINED_PERFORMANCE"), EndHint("VR_MODE")>>
             \o (IF s.sus THEN <<DoHint("SUSTAINED_PERFORMANCE")>> ELSE <<>>),
             [s EXCEPT !.vr = FALSE])
    ELSE Ret(<<>>, s)

\* case PowerHint_1_0::VR_MODE
vrModeCase(data, s) ==
    IF data # 0 /\ ~s.vr
    THEN Ret(IF ~s.sus THEN <<DoHint("VR_MODE")>>
             ELSE <<EndHint("SUSTAINED_PERFORMANCE"), DoHint("VR_SUSTAINED_PERFORMANCE")>>,
             [s EXCEPT !.vr = TRUE])
    ELSE IF data = 0 /\ s.vr
    THEN Ret(<<EndHint("VR_SUSTAINED_PERFORMANCE"), EndHint("VR_MODE")>>
             \o (IF s.sus THEN <<DoHint("SUSTAINED_PERFORMANCE")>> ELSE <<>>),
             [s EXCEPT !.vr = FALSE])
    ELSE Ret(<<>>, s)

\* mutant: only the start of a LAUNCH boost is suppressed, its end is not
launchCase_endsAlways(data, s) ==
    IF data = 0 THEN Ret(<<EndHint("LAUNCH")>>, s)
    ELSE IF s.vr \/ s.sus THEN Ret(<<>>, s)
    ELSE Ret(<<DoHint("LAUNCH")>>, s)

\* case PowerHint_1_0::LAUNCH
launchCase(data, s) ==
    IF s.vr \/ s.sus THEN Ret(<<>>, s)
    ELSE IF data # 0 THEN Ret(<<DoHint("LAUNCH")>>, s)
    ELSE Ret(<<EndHint("LAUNCH")>>, s)

\* case PowerHint_1_0::LOW_POWER
lowPowerCase(data, s) ==
    IF data # 0 THEN Ret(<<set_display_lpm(TRUE)>>, s)
    ELSE Ret(<<set_display_lpm(FALSE)>>, s)

\* the gate every entry point starts with
Gate(g, ready) == ~(~isSupportedGovernor(g) \/ ~ready)

powerHint(hint, data, g, ready, s) ==
    IF ~Gate(g, ready) THEN Ret(<<>>, s)
    ELSE CASE hint = "INTERACTION" -> interactionCase(data, s)
           [] hint = "SUSTAINED_PERFORMANCE" -> sustainedPerformanceCase(data, s)
           [] hint = "VR_MODE" -> vrModeCase(data, s)
           [] hint = "LAUNCH" -> launchCase(data, s)
           [] hint = "LOW_POWER" -> lowPowerCase(data, s)
           [] OTHER -> Ret(<<>>, s)

powerHintAsync(hint, data, g, ready, s) == powerHint(hint, data, g, ready, s)

\* mutant: AUDIO_LOW_LATENCY is suppressed like AUDIO_STREAMING
audioLowLatencyCase_suppressed(data, s) ==
    IF s.vr \/ s.sus THEN Ret(<<>>, s)
    ELSE IF data # 0 THEN Ret(<<DoHint("AUDIO_LOW_LATENCY")>>, s)
    ELSE Ret(<<EndHint("AUDIO_LOW_LATENCY")>>, s)

\* case PowerHint_1_2::AUDIO_LOW_LATENCY
audioLowLatencyCase(data, s) ==
    IF data # 0 THEN Ret(<<DoHint("AUDIO_LOW_LATENCY")>>, s)
    ELSE Ret(<<EndHint("AUDIO_LOW_LATENCY")>>, s)

\* mutant: the short and the long TPU boost durations are exchanged
audioStreamingCase_swappedDurations(data, s) ==
    IF s.vr \/ s.sus THEN Ret(<<>>, s)
    ELSE IF data = 1 THEN Ret(<<DoHint("AUDIO_STREAMING")>>, s)
    ELSE IF data = 0 THEN Ret(<<EndHint("AUDIO_STREAMING")>>, s)
    ELSE IF data = kTpuBoostShort
    THEN Ret(<<DoHintFor("TPU_BOOST", kTpuBoostDurationLongMs)>>, s)
    ELSE IF data = kTpuBoostLong
    THEN Ret(<<DoHintFor("TPU_BOOST", kTpuBoostDurationShortMs)>>, s)
    ELSE IF data = kTpuBoostStop THEN Ret(<<EndHint("TPU_BOOST")>>, s)
    ELSE Ret(<<>>, s)

\* mutant: the TPU sentinels are handled before the suppression test
audioStreamingCase_tpuUnsuppressed(data, s) ==
    IF data = kTpuBoostShort
    THEN Ret(<<DoHintFor("TPU_BOOST", kTpuBoostDurationShortMs)>>, s)
    ELSE IF data = kTpuBoostLong
    THEN Ret(<<DoHintFor("TPU_BOOST", kTpuBoostDurationLongMs)>>, s)
    ELSE IF data = kTpuBoostStop THEN Ret(<<EndHint("TPU_BOOST")>>, s)
    ELSE IF s.vr \/ s.sus THEN Ret(<<>>, s)
    ELSE IF data = 1 THEN Ret(<<DoHint("AUDIO_STREAMING")>>, s)
    ELSE IF data = 0 THEN Ret(<<EndHint("AUDIO_STREAMING")>>, s)
    ELSE Ret(<<>>, s)

\* case PowerHint_1_2::AUDIO_STREAMING
audioStreamingCase(data, s) ==
    IF s.vr \/ s.sus THEN Ret(<<>>, s)
    ELSE IF data = 1 THEN Ret(<<DoHint("AUDIO_STREAMING")>>, s)
    ELSE IF data = 0 THEN Ret(<<EndHint("AUDIO_STREAMING")>>, s)
    ELSE IF data = kTpuBoostShort
    THEN Ret(<<DoHintFor("TPU_BOOST", kTpuBoostDurationShortMs)>>, s)
    ELSE IF data = kTpuBoostLong
    THEN Ret(<<DoHintFor("TPU_BOOST", kTpuBoostDurationLongMs)>>, s)
    ELSE IF data = kTpuBoostStop THEN Ret(<<EndHint("TPU_BOOST")>>, s)
    ELSE Ret(<<>>, s)

\* mutant: the LAUNCH boost is skipped while VR or sustained mode is on
cameraLaunchCase_suppressed(data, s) ==
    IF data > 0
    THEN Ret(<<DoHintFor("CAMERA_LAUNCH", data)>>
             \o (IF s.vr \/ s.sus THEN <<>>
                 ELSE <<DoHintFor("LAUNCH", kCameraLaunchBoostMs)>>), s)
    ELSE IF data = 0 THEN Ret(<<EndHint("CAMERA_LAUNCH")>>, s)
    ELSE Ret(<<>>, s)

\* case PowerHint_1_2::CAMERA_LAUNCH
cameraLaunchCase(data, s) ==
    IF data > 0
    THEN Ret(<<DoHintFor("CAMERA_LAUNCH", data),
               DoHintFor("LAUNCH", kCameraLaunchBoostMs)>>, s)
    ELSE IF data = 0 THEN Ret(<<EndHint("CAMERA_LAUNCH")>>, s)
    ELSE Ret(<<>>, s)

\* mutant: the end of camera streaming leaves mCameraStreamingModeOn set
cameraStreamingCase_keepsFlag(data, s) ==
    IF data > 0
    THEN Ret(<<DoHint("CAMERA_STREAMING")>>, [s EXCEPT !.cam = TRUE])
    ELSE IF data = 0
    THEN Ret(<<EndHint("CAMERA_STREAMING"),
               DoHintFor("CAMERA_LAUNCH", kCameraTearDownBoostMs)>>, s)
    ELSE Ret(<<>>, s)

\* mutant: the tear-down boost is issued only when streaming was on
cameraStreamingCase_ifOn(data, s) ==
    IF data > 0
    THEN Ret(<<DoHint("CAMERA_STREAMING")>>, [s EXCEPT !.cam = TRUE])
    ELSE IF data = 0
    THEN Ret(<<EndHint("CAMERA_STREAMING")>>
             \o (IF s.cam THEN <<DoHintFor("CAMERA_LAUNCH", kCameraTearDownBoostMs)>>
                 ELSE <<>>),
             [s EXCEPT !.cam = FALSE])
    ELSE Ret(<<>>, s)

\* case PowerHint_1_2::CAMERA_STREAMING
cameraStreamingCase(data, s) ==
    IF data > 0
    THEN Ret(<<DoHint("CAMERA_STREAMING")>>, [s EXCEPT !.cam = TRUE])
    ELSE IF data = 0
    THEN Ret(<<EndHint("CAMERA_STREAMING"),
               DoHintFor("CAMERA_LAUNCH", kCameraTearDownBoostMs)>>,
             [s EXCEPT !.cam = FALSE])
    ELSE Ret(<<>>, s)

\* mutant: a negative payload is taken as the end of the shot
cameraShotCase_negativeEnds(data, s) ==
    IF data > 0 THEN Ret(<<DoHintFor("CAMERA_SHOT", data)>>, s)
    ELSE Ret(<<EndHint("CAMERA_SHOT")>>, s)

\* case PowerHint_1_2::CAMERA_SHOT
cameraShotCase(data, s) ==
    IF data > 0 THEN Ret(<<DoHintFor("CAMERA_SHOT", data)>>, s)
    ELSE IF data = 0 THEN Ret(<<EndHint("CAMERA_SHOT")>>, s)
    ELSE Ret(<<>>, s)

\* mutant: hints of the lower level are dropped instead of handed to powerHint
powerHintAsync_1_2_dropsLower(hint, data, g, ready, s) ==
    IF ~Gate(g, ready) THEN Ret(<<>>, s)
    ELSE CASE hint = "AUDIO_LOW_LATENCY" -> audioLowLatencyCase(data, s)
           [] hint = "AUDIO_STREAMING" -> audioStreamingCase(data, s)
           [] hint = "CAMERA_LAUNCH" -> cameraLaunchCase(data, s)
           [] hint = "CAMERA_STREAMING" -> cameraStreamingCase(data, s)
           [] hint = "CAMERA_SHOT" -> cameraShotCase(data, s)
           [] OTHER -> Ret(<<>>, s)

powerHintAsync_1_2(hint, data, g, ready, s) ==
    IF ~Gate(g, ready) THEN Ret(<<>>, s)
    ELSE CASE hint = "AUDIO_LOW_LATENCY" -> audioLowLatencyCase(data, s)
           [] hint = "AUDIO_STREAMING" -> audioStreamingCase(data, s)
           [] hint = "CAMERA_LAUNCH" -> cameraLaunchCase(data, s)
           [] hint = "CAMERA_STREAMING" -> cameraStreamingCase(data, s)
           [] hint = "CAMERA_SHOT" -> cameraShotCase(data, s)
           [] OTHER -> powerHint(hint, data, g, ready, s)

\* if (hint == PowerHint_1_3::EXPENSIVE_RENDERING)
expensiveRenderingCase(data, s) ==
    IF s.vr \/ s.sus THEN Ret(<<>>, s)
    ELSE IF data > 0 THEN Ret(<<DoHint("EXPENSIVE_RENDERING")>>, s)
    ELSE Ret(<<EndHint("EXPENSIVE_RENDERING")>>, s)

powerHintAsync_1_3(hint, data, g, ready, s) ==
    IF ~Gate(g, ready) THEN Ret(<<>>, s)
    ELSE IF hint = "EXPENSIVE_RENDERING" THEN expensiveRenderingCase(data, s)
    ELSE powerHintAsync_1_2(hint, data, g, ready, s)

Dispatch(entry, hint, data, g, ready, s) ==
    CASE entry = "powerHint" -> powerHint(hint, data, g, ready, s)
      [] entry = "powerHintAsync" -> powerHintAsync(hint, data, g, ready, s)
      [] entry = "powerHintAsync_1_2" -> powerHintAsync_1_2(hint, data, g, ready, s)
      [] OTHER -> powerHintAsync_1_3(hint, data, g, ready, s)

----------------------------------------------------------------------------
(* State *)

NoRequest == [entry |-> "none", hint |-> "none", data |-> 0, gov |-> ""]

NoWork == [hint |-> "none", data |-> 0]

NoPre == [vr |-> FALSE, sus |-> FALSE, cam |-> FALSE, ready |-> FALSE, active |-> {}]

Flags == [vr |-> mVRModeOn, sus |-> mSustainedPerfModeOn, cam |-> mCameraStreamingModeOn]

Alive == initPc # "fatal"

\* Spec: no request is between its start and its return
Idle == last = NoRequest

Init ==
    /\ mReady = FALSE
    /\ mVRModeOn = FALSE
    /\ mSustainedPerfModeOn = FALSE
    /\ mCameraStreamingModeOn = FALSE
    /\ mHintManager = FALSE
    /\ mInteractionHandler = FALSE
    /\ initPc = "wait"
    /\ active = {}
    /\ last = NoRequest
    /\ pre = NoPre
    /\ calls = <<>>
    /\ ihCalls = <<>>
    /\ pc = [t \in 1..NThreads |-> "idle"]
    /\ req = [t \in 1..NThreads |-> NoWork]
    /\ tlog = [t \in 1..NThreads |-> <<>>]

----------------------------------------------------------------------------
(* The init thread, Power::Power() *)

InitWaitForProperty ==
    /\ Idle
    /\ initPc = "wait"
    /\ initPc' = "config"
    /\ UNCHANGED <<mReady, mVRModeOn, mSustainedPerfModeOn, mCameraStreamingModeOn,
                   mHintManager, mInteractionHandler, active, seqVars, concVars>>

\* mutant: an invalid config is logged but the init thread goes on
InitGetFromJSON_noFatal ==
    /\ Idle
    /\ initPc = "config"
    /\ \E valid \in BOOLEAN :
          /\ mHintManager' = valid
          /\ initPc' = "handler"
    /\ UNCHANGED <<mReady, mVRModeOn, mSustainedPerfModeOn, mCameraStreamingModeOn,
                   mInteractionHandler, active, seqVars, concVars>>

InitGetFromJSON ==
    /\ Idle
    /\ initPc = "config"
    /\ \E valid \in BOOLEAN :
          /\ mHintManager' = valid
          /\ initPc' = IF valid THEN "handler" ELSE "fatal"
    /\ UNCHANGED <<mReady, mVRModeOn, mSustainedPerfModeOn, mCameraStreamingModeOn,
                   mInteractionHandler, active, seqVars, concVars>>

InitInteractionHandler ==
    /\ Idle
    /\ initPc = "handler"
    /\ mInteractionHandler' = TRUE
    /\ initPc' = "state"
    /\ UNCHANGED <<mReady, mVRModeOn, mSustainedPerfModeOn, mCameraStreamingModeOn,
                   mHintManager, active, seqVars, concVars>>

StateProps == {"CAMERA_STREAMING", "SUSTAINED_PERFORMANCE", "VR_MODE",
               "VR_SUSTAINED_PERFORMANCE", ""}

\* mutant: readiness is published before the persisted state is replayed
InitState_publishesReady ==
    /\ Idle
    /\ initPc = "state"
    /\ \E state \in StateProps :
          /\ active' = IF state = "" THEN active ELSE ApplyCall(active, DoHint(state))
          /\ mCameraStreamingModeOn' = IF state = "CAMERA_STREAMING" THEN TRUE
                                       ELSE mCameraStreamingModeOn
          /\ mSustainedPerfModeOn' =
                IF state \in {"SUSTAINED_PERFORMANCE", "VR_SUSTAINED_PERFORMANCE"}
                THEN TRUE ELSE mSustainedPerfModeOn
          /\ mVRModeOn' = IF state \in {"VR_MODE", "VR_SUSTAINED_PERFORMANCE"}
                          THEN TRUE ELSE mVRModeOn
    /\ mReady' = TRUE
    /\ initPc' = "audio"
    /\ UNCHANGED <<mHintManager, mInteractionHandler, seqVars, concVars>>

\* mutant: the persisted composed mode is replayed as the two plain hints
InitStateFor_plainHints(state) ==
    /\ active' = IF state = "" THEN active
                 ELSE IF state = "VR_SUSTAINED_PERFORMANCE"
                 THEN ApplyCalls(active, <<DoHint("VR_MODE"), DoHint("SUSTAINED_PERFORMANCE")>>)
                 ELSE ApplyCall(active, DoHint(state))
    /\ mCameraStreamingModeOn' = IF state = "CAMERA_STREAMING" THEN TRUE
                                 ELSE mCameraStreamingModeOn
    /\ mSustainedPerfModeOn' =
          IF state \in {"SUSTAINED_PERFORMANCE", "VR_SUSTAINED_PERFORMANCE"}
          THEN TRUE ELSE mSustainedPerfModeOn
    /\ mVRModeOn' = IF state \in {"VR_MODE", "VR_SUSTAINED_PERFORMANCE"}
                    THEN TRUE ELSE mVRModeOn

\* the branch of  if (state == ...) ... else ...  taken for one property value
InitStateFor(state) ==
    /\ active' = IF state = "" THEN active ELSE ApplyCall(active, DoHint(state))
    /\ mCameraStreamingModeOn' = IF state = "CAMERA_STREAMING" THEN TRUE
                                 ELSE mCameraStreamingModeOn
    /\ mSustainedPerfModeOn' =
          IF state \in {"SUSTAINED_PERFORMANCE", "VR_SUSTAINED_PERFORMANCE"}
          THEN TRUE ELSE mSustainedPerfModeOn
    /\ mVRModeOn' = IF state \in {"VR_MODE", "VR_SUSTAINED_PERFORMANCE"}
                    THEN TRUE ELSE mVRModeOn

InitState ==
    /\ Idle
    /\ initPc = "state"
    /\ \E state \in StateProps : InitStateFor(state)
    /\ initPc' = "audio"
    /\ UNCHANGED <<mReady, mHintManager, mInteractionHandler, seqVars, concVars>>

InitAudio ==
    /\ Idle
    /\ initPc = "audio"
    /\ \E state \in {"AUDIO_LOW_LATENCY", ""} :
          active' = IF state = "AUDIO_LOW_LATENCY"
                    THEN ApplyCall(active, DoHint("AUDIO_LOW_LATENCY")) ELSE active
    /\ initPc' = "rendering"
    /\ UNCHANGED <<mReady, mVRModeOn, mSustainedPerfModeOn, mCameraStreamingModeOn,
                   mHintManager, mInteractionHandler, seqVars, concVars>>

InitRendering ==
    /\ Idle
    /\ initPc = "rendering"
    /\ \E state \in {"EXPENSIVE_RENDERING", ""} :
          active' = IF state = "EXPENSIVE_RENDERING"
                    THEN ApplyCall(active, DoHint("EXPENSIVE_RENDERING")) ELSE active
    /\ initPc' = "ready"
    /\ UNCHANGED <<mReady, mVRModeOn, mSustainedPerfModeOn, mCameraStreamingModeOn,
                   mHintManager, mInteractionHandler, seqVars, concVars>>

InitReady ==
    /\ Idle
    /\ initPc = "ready"
    /\ mReady' = TRUE
    /\ initPc' = "done"
    /\ UNCHANGED <<mVRModeOn, mSustainedPerfModeOn, mCameraStreamingModeOn,
                   mHintManager, mInteractionHandler, active, seqVars, concVars>>

InitThread ==
    \/ InitWaitForProperty
    \/ InitGetFromJSON
    \/ InitInteractionHandler
    \/ InitState
    \/ InitAudio
    \/ InitRendering
    \/ InitReady

----------------------------------------------------------------------------
(* Spec: one request at a time *)

\* One call of an entry point, from its gate to return Void().  g is the
\* governor the call reads; the gates a call falls through (1_3 -> 1_2 ->
\* powerHint) read the same value, a later gate that fails being the same
\* no-op as the first gate failing.
Request ==
    /\ Alive
    /\ Idle
    /\ \E entry \in EntryPoints, data \in Payloads, g \in Governors :
       \E hint \in HintsOf(entry) :
          LET r == Dispatch(entry, hint, data, g, mReady, Flags) IN
          /\ mVRModeOn' = r.s.vr
          /\ mSustainedPerfModeOn' = r.s.sus
          /\ mCameraStreamingModeOn' = r.s.cam
          /\ active' = ApplyCalls(active, r.calls)
          /\ last' = [entry |-> entry, hint |-> hint, data |-> data, gov |-> g]
          /\ pre' = [vr |-> mVRModeOn, sus |-> mSustainedPerfModeOn,
                     cam |-> mCameraStreamingModeOn, ready |-> mReady,
                     active |-> active]
          /\ calls' = r.calls
          /\ ihCalls' = InteractionHandlerCalls(active, r.calls)
    /\ UNCHANGED <<mReady, mHintManager, mInteractionHandler, initPc, concVars>>

\* the handler has returned Void(): the record of the request is dropped
Return ==
    /\ last # NoRequest
    /\ last' = NoRequest
    /\ pre' = NoPre
    /\ calls' = <<>>
    /\ ihCalls' = <<>>
    /\ UNCHANGED <<powerVars, concVars>>

boolToString(b) == IF b THEN "true" ELSE "false"

\* Power::debug: the dump written to the descriptor, one line per record.
\* handle is "nullptr" or "handle", numFds its number of descriptors,
\* running what mHintManager->IsRunning() answers.
Debug ==
    /\ Alive
    /\ Idle
    /\ \E handle \in {"nullptr", "handle"}, numFds \in {0, 1}, running \in BOOLEAN :
          /\ handle = "nullptr" => numFds = 0
          /\ last' = [entry |-> "debug", hint |-> handle, data |-> numFds, gov |-> ""]
          /\ calls' =
                IF handle # "nullptr" /\ numFds >= 1 /\ mReady
                THEN << [op |-> "DumpToFd", name |-> "", arg |-> 0],
                        [op |-> "HintManager Running", name |-> boolToString(running), arg |-> 0],
                        [op |-> "VRMode", name |-> boolToString(mVRModeOn), arg |-> 0],
                        [op |-> "CameraStreamingMode",
                         name |-> boolToString(mCameraStreamingModeOn), arg |-> 0],
                        [op |-> "SustainedPerformanceMode",
                         name |-> boolToString(mSustainedPerfModeOn), arg |-> 0] >>
                ELSE <<>>
    /\ pre' = [vr |-> mVRModeOn, sus |-> mSustainedPerfModeOn,
               cam |-> mCameraStreamingModeOn, ready |-> mReady, active |-> active]
    /\ ihCalls' = <<>>
    /\ UNCHANGED <<powerVars, concVars>>

\* InteractionHandler: the timer of the boost expires with no Acquire since
\* it was last armed; the boost is ended once.
BoostExpire ==
    /\ Alive
    /\ Idle
    /\ "INTERACTION" \in active
    /\ active' = ApplyCall(active, EndHint("INTERACTION"))
    /\ last' = [entry |-> "timer", hint |-> "INTERACTION", data |-> 0, gov |-> ""]
    /\ pre' = [vr |-> mVRModeOn, sus |-> mSustainedPerfModeOn,
               cam |-> mCameraStreamingModeOn, ready |-> mReady, active |-> active]
    /\ calls' = <<>>
    /\ ihCalls' = <<EndHint("INTERACTION")>>
    /\ UNCHANGED <<mReady, mVRModeOn, mSustainedPerfModeOn, mCameraStreamingModeOn,
                   mHintManager, mInteractionHandler, initPc, concVars>>

Next == InitThread \/ Request \/ Debug \/ BoostExpire \/ Return

Spec == Init /\ [][Next]_vars

----------------------------------------------------------------------------
(* SpecConc: binder threads inside Power::powerHint, cases                  *)
(* SUSTAINED_PERFORMANCE and VR_MODE, and inside powerHintAsync_1_2, case   *)
(* CAMERA_STREAMING; one access to a member or one HintManager call per     *)
(* step.  No lock is taken anywhere in the handlers.                        *)
(* X is the flag of the requested mode, Y the flag of the other mode.       *)
(* SpecStep is the same program with a single binder thread.                *)

Threads == 1..NThreads

ModeHints == {"SUSTAINED_PERFORMANCE", "VR_MODE"}

StepHints == ModeHints \cup {"CAMERA_STREAMING"}

OtherMode(hint) == IF hint = "VR_MODE" THEN "SUSTAINED_PERFORMANCE" ELSE "VR_MODE"

ReadFlag(hint) == IF hint = "VR_MODE" THEN mVRModeOn ELSE mSustainedPerfModeOn

FlagOf(hint) ==
    IF hint = "VR_MODE" THEN "mVRModeOn"
    ELSE IF hint = "SUSTAINED_PERFORMANCE" THEN "mSustainedPerfModeOn"
    ELSE "mCameraStreamingModeOn"

\* the assignment  flag = v  as an entry of tlog
FlagWrite(hint, v) == [op |-> "write", name |-> FlagOf(hint), arg |-> IF v THEN 1 ELSE 0]

\* mVRModeOn = v / mSustainedPerfModeOn = v
WriteFlag(hint, v) ==
    /\ mVRModeOn' = IF hint = "VR_MODE" THEN v ELSE mVRModeOn
    /\ mSustainedPerfModeOn' = IF hint = "VR_MODE" THEN mSustainedPerfModeOn ELSE v

Goto(t, l) ==
    /\ pc' = [pc EXCEPT ![t] = l]
    /\ req' = IF l = "idle" THEN [req EXCEPT ![t] = NoWork] ELSE req

Log(t, e) == tlog' = [tlog EXCEPT ![t] = Append(@, e)]

HintManagerStep(t, c, l) ==
    /\ active' = ApplyCall(active, c)
    /\ Goto(t, l)
    /\ Log(t, c)
    /\ UNCHANGED <<mReady, mVRModeOn, mSustainedPerfModeOn, mCameraStreamingModeOn,
                   mHintManager, mInteractionHandler, initPc, seqVars>>

\* a call arrives and passes  if (!isSupportedGovernor() || !mReady) return;
\* case CAMERA_STREAMING:  if (data > 0) ... else if (data == 0) ...
ThreadEnter(t) ==
    /\ Alive
    /\ pc[t] = "idle"
    /\ \E hint \in StepHints, data \in {0, 1}, g \in Governors :
          /\ Gate(g, mReady)
          /\ req' = [req EXCEPT ![t] = [hint |-> hint, data |-> data]]
          /\ pc' = [pc EXCEPT ![t] =
                      IF hint \in ModeHints THEN "test"
                      ELSE IF data > 0 THEN "cs_do" ELSE "cs_end"]
    /\ UNCHANGED <<powerVars, seqVars, tlog>>

\* if (data && !mXOn) ... else if (!data && mXOn) ...
ThreadTest(t) ==
    /\ pc[t] = "test"
    /\ LET x == ReadFlag(req[t].hint) IN
          Goto(t, IF req[t].data # 0 /\ ~x THEN "en_other"
                  ELSE IF req[t].data = 0 /\ x THEN "dis_endC"
                  ELSE "idle")
    /\ UNCHANGED <<powerVars, seqVars, tlog>>

ThreadEnableReadOther_setsFirst(t) ==
    /\ pc[t] = "en_other"
    /\ Goto(t, IF ~ReadFlag(OtherMode(req[t].hint)) THEN "en_do" ELSE "en_end")
    /\ WriteFlag(req[t].hint, TRUE)
    /\ Log(t, FlagWrite(req[t].hint, TRUE))
    /\ UNCHANGED <<mReady, mCameraStreamingModeOn, mHintManager, mInteractionHandler,
                   initPc, active, seqVars>>

\* if (!mYOn)
ThreadEnableReadOther(t) ==
    /\ pc[t] = "en_other"
    /\ Goto(t, IF ~ReadFlag(OtherMode(req[t].hint)) THEN "en_do" ELSE "en_end")
    /\ UNCHANGED <<powerVars, seqVars, tlog>>

\* mHintManager->DoHint(X)
ThreadEnableDoPlain(t) ==
    /\ pc[t] = "en_do"
    /\ HintManagerStep(t, DoHint(req[t].hint), "en_set")

\* mHintManager->EndHint(Y)
ThreadEnableEndOther(t) ==
    /\ pc[t] = "en_end"
    /\ HintManagerStep(t, EndHint(OtherMode(req[t].hint)), "en_doC")

\* mHintManager->DoHint("VR_SUSTAINED_PERFORMANCE")
ThreadEnableDoComposed(t) ==
    /\ pc[t] = "en_doC"
    /\ HintManagerStep(t, DoHint("VR_SUSTAINED_PERFORMANCE"), "en_set")

\* mXOn = true
ThreadEnableSet(t) ==
    /\ pc[t] = "en_set"
    /\ WriteFlag(req[t].hint, TRUE)
    /\ Goto(t, "ret")
    /\ Log(t, FlagWrite(req[t].hint, TRUE))
    /\ UNCHANGED <<mReady, mCameraStreamingModeOn, mHintManager, mInteractionHandler,
                   initPc, active, seqVars>>

\* mHintManager->EndHint("VR_SUSTAINED_PERFORMANCE")
ThreadDisableEndComposed(t) ==
    /\ pc[t] = "dis_endC"
    /\ HintManagerStep(t, EndHint("VR_SUSTAINED_PERFORMANCE"), "dis_endX")

\* mHintManager->EndHint(X)
ThreadDisableEndPlain(t) ==
    /\ pc[t] = "dis_endX"
    /\ HintManagerStep(t, EndHint(req[t].hint), "dis_other")

\* if (mYOn)
ThreadDisableReadOther(t) ==
    /\ pc[t] = "dis_other"
    /\ Goto(t, IF ReadFlag(OtherMode(req[t].hint)) THEN "dis_do" ELSE "dis_set")
    /\ UNCHANGED <<powerVars, seqVars, tlog>>

\* mHintManager->DoHint(Y)
ThreadDisableDoOther(t) ==
    /\ pc[t] = "dis_do"
    /\ HintManagerStep(t, DoHint(OtherMode(req[t].hint)), "dis_set")

\* mXOn = false
ThreadDisableSet(t) ==
    /\ pc[t] = "dis_set"
    /\ WriteFlag(req[t].hint, FALSE)
    /\ Goto(t, "ret")
    /\ Log(t, FlagWrite(req[t].hint, FALSE))
    /\ UNCHANGED <<mReady, mCameraStreamingModeOn, mHintManager, mInteractionHandler,
                   initPc, active, seqVars>>

\* mHintManager->DoHint("CAMERA_STREAMING")
ThreadCameraDo(t) ==
    /\ pc[t] = "cs_do"
    /\ HintManagerStep(t, DoHint("CAMERA_STREAMING"), "cs_set")

\* mCameraStreamingModeOn = true
ThreadCameraSet(t) ==
    /\ pc[t] = "cs_set"
    /\ mCameraStreamingModeOn' = TRUE
    /\ Goto(t, "ret")
    /\ Log(t, FlagWrite("CAMERA_STREAMING", TRUE))
    /\ UNCHANGED <<mReady, mVRModeOn, mSustainedPerfModeOn, mHintManager,
                   mInteractionHandler, initPc, active, seqVars>>

\* mHintManager->EndHint("CAMERA_STREAMING")
ThreadCameraEnd(t) ==
    /\ pc[t] = "cs_end"
    /\ HintManagerStep(t, EndHint("CAMERA_STREAMING"), "cs_boost")

\* mHintManager->DoHint("CAMERA_LAUNCH", std::chrono::milliseconds(1000))
ThreadCameraBoost(t) ==
    /\ pc[t] = "cs_boost"
    /\ HintManagerStep(t, DoHintFor("CAMERA_LAUNCH", kCameraTearDownBoostMs), "cs_clear")

\* mCameraStreamingModeOn = false
ThreadCameraClear(t) ==
    /\ pc[t] = "cs_clear"
    /\ mCameraStreamingModeOn' = FALSE
    /\ Goto(t, "ret")
    /\ Log(t, FlagWrite("CAMERA_STREAMING", FALSE))
    /\ UNCHANGED <<mReady, mVRModeOn, mSustainedPerfModeOn, mHintManager,
                   mInteractionHandler, initPc, active, seqVars>>

\* break; return Void();
ThreadReturn(t) ==
    /\ pc[t] = "ret"
    /\ Goto(t, "idle")
    /\ tlog' = [tlog EXCEPT ![t] = <<>>]
    /\ UNCHANGED <<powerVars, seqVars>>

ThreadStep(t) ==
    \/ ThreadEnter(t)
    \/ ThreadTest(t)
    \/ ThreadEnableReadOther(t)
    \/ ThreadEnableDoPlain(t)
    \/ ThreadEnableEndOther(t)
    \/ ThreadEnableDoComposed(t)
    \/ ThreadEnableSet(t)
    \/ ThreadDisableEndComposed(t)
    \/ ThreadDisableEndPlain(t)
    \/ ThreadDisableReadOther(t)
    \/ ThreadDisableDoOther(t)
    \/ ThreadDisableSet(t)
    \/ ThreadCameraDo(t)
    \/ ThreadCameraSet(t)
    \/ ThreadCameraEnd(t)
    \/ ThreadCameraBoost(t)
    \/ ThreadCameraClear(t)
    \/ ThreadReturn(t)

NextConc == InitThread \/ (\E t \in Threads : ThreadStep(t))

SpecConc == Init /\ [][NextConc]_vars

NextStep == InitThread \/ ThreadStep(1)

SpecStep == Init /\ [][NextStep]_vars

----------------------------------------------------------------------------
(* Properties.  Under Spec a state with last # NoRequest is the state right *)
(* after the request `last` was handled; pre holds what it started from.    *)

Done == last # NoRequest /\ last.entry \in EntryPoints

\* the request passed  if (!isSupportedGovernor() || !mReady) return
Passed == Done /\ pre.ready /\ last.gov \in {"schedutil", "sched"}

PreFlags == [vr |-> pre.vr, sus |-> pre.sus, cam |-> pre.cam]

\* the request changed neither a mode flag, nor mReady, nor a held hint
NothingChanged == Flags = PreFlags /\ mReady = pre.ready /\ active = pre.active

ModeNames == {"VR_MODE", "SUSTAINED_PERFORMANCE", "VR_SUSTAINED_PERFORMANCE"}

PreOwn == IF last.hint = "VR_MODE" THEN pre.vr ELSE pre.sus
PreOther == IF last.hint = "VR_MODE" THEN pre.sus ELSE pre.vr
NowOwn == IF last.hint = "VR_MODE" THEN mVRModeOn ELSE mSustainedPerfModeOn
NowOther == IF last.hint = "VR_MODE" THEN mSustainedPerfModeOn ELSE mVRModeOn

\* C1: once the service is ready and requests are handled one at a time, the
\* mode hints held are a function of the two flags: none, VR_MODE alone,
\* SUSTAINED_PERFORMANCE alone, or VR_SUSTAINED_PERFORMANCE alone.
C1_ModeHintsFollowFlags ==
    mReady =>
       active \cap ModeNames =
          IF mVRModeOn /\ mSustainedPerfModeOn THEN {"VR_SUSTAINED_PERFORMANCE"}
          ELSE IF mVRModeOn THEN {"VR_MODE"}
          ELSE IF mSustainedPerfModeOn THEN {"SUSTAINED_PERFORMANCE"}
          ELSE {}

\* sustained performance was on alone, VR_MODE(0) after VR_MODE(1) brought it back
C1_Witness ==
    /\ Passed /\ last.hint = "VR_MODE" /\ last.data = 0
    /\ pre.vr /\ pre.sus /\ "VR_SUSTAINED_PERFORMANCE" \in pre.active
    /\ ~mVRModeOn /\ mSustainedPerfModeOn
    /\ active \cap ModeNames = {"SUSTAINED_PERFORMANCE"}

\* C2: with requests handled concurrently the two plain hints are never held
\* together, and with both flags set and no request in flight the composed
\* hint is held.
C2_ComposedOnly ==
    /\ ~({"VR_MODE", "SUSTAINED_PERFORMANCE"} \subseteq active)
    /\ (mVRModeOn /\ mSustainedPerfModeOn /\ (\A t \in Threads : pc[t] = "idle"))
          => "VR_SUSTAINED_PERFORMANCE" \in active

\* C3: the calls of a SUSTAINED_PERFORMANCE / VR_MODE request that changes its
\* flag, in order: enable alone -> [DoHint X]; enable with the other on ->
\* [EndHint Y, DoHint composed]; disable -> [EndHint composed, EndHint X] and
\* then DoHint Y exactly when Y is on.  The flag of X follows the request and
\* the flag of Y keeps its value.
C3_ModeCallOrder ==
    (Passed /\ last.hint \in ModeHints) =>
       LET X == last.hint
           Y == OtherMode(last.hint)
           C == "VR_SUSTAINED_PERFORMANCE"
       IN /\ (last.data # 0 /\ ~PreOwn /\ ~PreOther) =>
                (calls = <<DoHint(X)>> /\ NowOwn /\ ~NowOther)
          /\ (last.data # 0 /\ ~PreOwn /\ PreOther) =>
                (calls = <<EndHint(Y), DoHint(C)>> /\ NowOwn /\ NowOther)
          /\ (last.data = 0 /\ PreOwn /\ PreOther) =>
                (calls = <<EndHint(C), EndHint(X), DoHint(Y)>> /\ ~NowOwn /\ NowOther)
          /\ (last.data = 0 /\ PreOwn /\ ~PreOther) =>
                (calls = <<EndHint(C), EndHint(X)>> /\ ~NowOwn /\ ~NowOther)

\* the last request of [VR_MODE(1), SUSTAINED_PERFORMANCE(1), VR_MODE(0)]
C3_Witness ==
    /\ Passed /\ last.hint = "VR_MODE" /\ last.data = 0
    /\ pre.vr /\ pre.sus
    /\ calls = <<EndHint("VR_SUSTAINED_PERFORMANCE"), EndHint("VR_MODE"),
                 DoHint("SUSTAINED_PERFORMANCE")>>
    /\ mSustainedPerfModeOn /\ ~mVRModeOn

\* C4: an enable request for a mode whose flag is already set, and a disable
\* request for a mode whose flag is clear, issue no call and change nothing.
C4_RepeatIsNoOp ==
    (Passed /\ last.hint \in ModeHints
       /\ ((last.data # 0 /\ PreOwn) \/ (last.data = 0 /\ ~PreOwn)))
    => (calls = <<>> /\ NothingChanged)

\* VR_MODE(1) handled while VR mode is already on, sustained mode on as well
C4_Witness ==
    /\ Passed /\ last.hint = "VR_MODE" /\ last.data = 1
    /\ pre.vr /\ pre.sus /\ calls = <<>>

\* C5: an INTERACTION, LAUNCH, AUDIO_STREAMING or EXPENSIVE_RENDERING request
\* handled while VR or sustained mode is on issues no call (no Acquire
\* either) and leaves the flags and the held hints as they were.
C5_Suppressed ==
    (Done /\ (pre.vr \/ pre.sus)
       /\ last.hint \in {"INTERACTION", "LAUNCH", "AUDIO_STREAMING", "EXPENSIVE_RENDERING"})
    => (calls = <<>> /\ NothingChanged)

\* a TPU sentinel passes the gate while sustained mode is on
C5_Witness ==
    /\ Passed /\ last.hint = "AUDIO_STREAMING" /\ last.data = 1001
    /\ pre.sus /\ ~pre.vr /\ calls = <<>>

\* C6: a request that finds mReady false or a governor other than schedutil
\* and sched issues no call of any kind and changes no flag, whatever the
\* entry point, hint and payload.
C6_Gate ==
    (Done /\ (~pre.ready \/ last.gov \notin {"schedutil", "sched"}))
    => (calls = <<>> /\ NothingChanged)

\* ready, but the governor is not supported, through the newest entry point
C6_Witness ==
    /\ Done /\ pre.ready /\ last.gov = "performance"
    /\ last.entry = "powerHintAsync_1_3" /\ last.hint = "CAMERA_STREAMING"
    /\ last.data = 1 /\ ~pre.cam /\ calls = <<>>

\* C7: CAMERA_LAUNCH with p > 0 issues DoHint CAMERA_LAUNCH for p ms and then
\* DoHint LAUNCH for 2500 ms, whatever the mode flags and whether or not
\* LAUNCH is held; with 0 it issues EndHint CAMERA_LAUNCH; no flag changes.
C7_CameraLaunch ==
    (Passed /\ last.hint = "CAMERA_LAUNCH" /\ last.data >= 0) =>
       /\ calls = IF last.data > 0
                  THEN <<DoHintFor("CAMERA_LAUNCH", last.data), DoHintFor("LAUNCH", 2500)>>
                  ELSE <<EndHint("CAMERA_LAUNCH")>>
       /\ Flags = PreFlags

\* VR mode on and LAUNCH still held from before
C7_Witness ==
    /\ Passed /\ last.hint = "CAMERA_LAUNCH" /\ last.data = 2
    /\ pre.vr /\ "LAUNCH" \in pre.active /\ Len(calls) = 2

\* C8: CAMERA_STREAMING with 0 issues EndHint CAMERA_STREAMING, then DoHint
\* CAMERA_LAUNCH for 1000 ms, and clears mCameraStreamingModeOn, whatever the
\* flags were; with p > 0 it issues DoHint CAMERA_STREAMING and sets the flag.
C8_CameraStreaming ==
    (Passed /\ last.hint = "CAMERA_STREAMING" /\ last.data >= 0) =>
       /\ last.data = 0 =>
             /\ calls = <<EndHint("CAMERA_STREAMING"), DoHintFor("CAMERA_LAUNCH", 1000)>>
             /\ ~mCameraStreamingModeOn
       /\ last.data > 0 =>
             /\ calls = <<DoHint("CAMERA_STREAMING")>>
             /\ mCameraStreamingModeOn
       /\ mVRModeOn = pre.vr /\ mSustainedPerfModeOn = pre.sus

\* streaming was not on, VR mode is on
C8_Witness ==
    /\ Passed /\ last.hint = "CAMERA_STREAMING" /\ last.data = 0
    /\ ~pre.cam /\ pre.vr /\ Len(calls) = 2

\* C9: a camera request with a negative payload, and an AUDIO_STREAMING
\* request that is not suppressed and whose payload is none of 0, 1, 1000,
\* 1001, 1002, issues no call, changes nothing and leaves the service alive.
C9_InvalidIgnored ==
    (Passed
       /\ \/ (last.hint \in {"CAMERA_LAUNCH", "CAMERA_STREAMING", "CAMERA_SHOT"}
                /\ last.data < 0)
          \/ (last.hint = "AUDIO_STREAMING" /\ ~pre.vr /\ ~pre.sus
                /\ last.data \notin {0, 1, 1000, 1001, 1002}))
    => (calls = <<>> /\ NothingChanged /\ Alive)

\* CAMERA_SHOT(-1) while camera streaming is on
C9_Witness ==
    /\ Passed /\ last.hint = "CAMERA_SHOT" /\ last.data = -1
    /\ pre.cam /\ mCameraStreamingModeOn /\ calls = <<>>

\* C10: AUDIO_LOW_LATENCY issues DoHint on a non-zero payload and EndHint on
\* zero, and LOW_POWER issues set_display_lpm(payload # 0) and no HintManager
\* call, for every value of the VR and sustained flags; no flag changes.
C10_ModeIndependent ==
    /\ (Passed /\ last.hint = "AUDIO_LOW_LATENCY") =>
          /\ calls = <<IF last.data # 0 THEN DoHint("AUDIO_LOW_LATENCY")
                       ELSE EndHint("AUDIO_LOW_LATENCY")>>
          /\ Flags = PreFlags
    /\ (Passed /\ last.hint = "LOW_POWER") =>
          /\ calls = <<set_display_lpm(last.data # 0)>>
          /\ NothingChanged

\* AUDIO_LOW_LATENCY ended while both VR and sustained mode are on
C10_Witness ==
    /\ Passed /\ last.hint = "AUDIO_LOW_LATENCY" /\ last.data = 0
    /\ pre.vr /\ pre.sus /\ "AUDIO_LOW_LATENCY" \in pre.active
    /\ "AUDIO_LOW_LATENCY" \notin active

\* C11: mReady starts false, never goes from true to false, and changes only
\* in the init thread's final mReady.store(true), which runs once; no request
\* handler and no dump writes it.
C11_ReadyOneWay ==
    /\ ~mReady
    /\ [][/\ mReady => mReady'
          /\ mReady' # mReady =>
                (initPc = "ready" /\ initPc' = "done" /\ last' = last)
          /\ initPc = "done" => initPc' = "done"]_vars

\* ready, and a request and a dump have since been handled
C11_Witness ==
    /\ mReady /\ initPc = "done" /\ mVRModeOn
    /\ last.entry = "debug" /\ Len(calls) = 5

----------------------------------------------------------------------------
\* a binder thread between its read of the requested mode's flag
\* (ThreadTest) and its write of that flag (ThreadEnableSet, ThreadDisableSet)
InRegion(t) ==
    pc[t] \in {"en_other", "en_do", "en_end", "en_doC", "en_set",
               "dis_endC", "dis_endX", "dis_other", "dis_do", "dis_set"}

HasActivate(log) == \E i \in 1..Len(log) : log[i].op \in {"DoHint", "DoHintFor"}

\* C13: the SUSTAINED_PERFORMANCE and VR_MODE branches exclude one another:
\* no two handlers are at the same time between reading the mode flags and
\* writing the flag, so two concurrent identical enable requests for a mode
\* whose flag is false give one activate call, never two.
C13_MutualExclusion ==
    \A t \in Threads, u \in Threads :
        t # u =>
            /\ ~(InRegion(t) /\ InRegion(u))
            /\ (req[t] = req[u] /\ req[t].hint \in ModeHints /\ req[t].data = 1) =>
                  ~(HasActivate(tlog[t]) /\ HasActivate(tlog[u]))

----------------------------------------------------------------------------
IsEnd(e) == e.op = "EndHint"
IsDo(e) == e.op \in {"DoHint", "DoHintFor"}
IsWrite(e) == e.op = "write"

FlagValue(hint) ==
    IF hint = "CAMERA_STREAMING" THEN mCameraStreamingModeOn ELSE ReadFlag(hint)

\* C14 as stated: in a request that changes a mode flag the flag write comes
\* after all deactivate calls of the request and before any of its activate
\* calls (deactivate -> mutate flag -> activate).
C14_FlagBetween ==
    \A t \in Threads :
        pc[t] = "ret" =>
            \A i \in 1..Len(tlog[t]), j \in 1..Len(tlog[t]) :
                IsWrite(tlog[t][i]) =>
                    /\ IsEnd(tlog[t][j]) => j < i
                    /\ IsDo(tlog[t][j]) => i < j

\* C14, amended: in a SUSTAINED_PERFORMANCE, VR_MODE or CAMERA_STREAMING
\* request that changes a mode flag, the flag is written once, as the last
\* step, after every deactivate and every activate call of the request, and
\* the deactivate calls come before the activate calls
\* (deactivate -> activate -> mutate flag).
C14_FlagLast ==
    \A t \in Threads :
        pc[t] = "ret" =>
            LET log == tlog[t]
                n == Len(log)
            IN  /\ n >= 2
                /\ log[n] = FlagWrite(req[t].hint, req[t].data # 0)
                /\ \A i \in 1..(n - 1) : ~IsWrite(log[i])
                /\ \A i \in 1..(n - 1), j \in 1..(n - 1) :
                      (IsEnd(log[i]) /\ IsDo(log[j])) => i < j
                /\ \E j \in 1..(n - 1) : IsEnd(log[j]) \/ IsDo(log[j])

C14_Witness ==
    /\ pc[1] = "ret"
    /\ tlog[1] = <<EndHint("VR_SUSTAINED_PERFORMANCE"), EndHint("SUSTAINED_PERFORMANCE"),
                   DoHint("VR_MODE"), FlagWrite("SUSTAINED_PERFORMANCE", FALSE)>>
    /\ mVRModeOn /\ ~mSustainedPerfModeOn

----------------------------------------------------------------------------
LowKinds == {"INTERACTION", "LAUNCH", "SUSTAINED_PERFORMANCE", "VR_MODE", "LOW_POWER"}

Kinds_1_2 == {"AUDIO_STREAMING", "AUDIO_LOW_LATENCY", "CAMERA_LAUNCH",
              "CAMERA_STREAMING", "CAMERA_SHOT"}

\* the request handled last had exactly the effect r
SameAs(r) ==
    /\ calls = r.calls
    /\ Flags = r.s
    /\ ihCalls = InteractionHandlerCalls(pre.active, r.calls)
    /\ active = ApplyCalls(pre.active, r.calls)

\* C15: a hint kind of the lowest level has, through powerHintAsync_1_2 and
\* powerHintAsync_1_3 (and powerHintAsync), the calls and resulting flags it
\* has through powerHint; a 1.2-level kind through powerHintAsync_1_3 behaves
\* as through powerHintAsync_1_2; a kind recognised at no level gives no
\* call and no flag change.
C15_FallThrough ==
    Done =>
        /\ last.hint \in LowKinds =>
              SameAs(powerHint(last.hint, last.data, last.gov, pre.ready, PreFlags))
        /\ (last.hint \in Kinds_1_2 /\ last.entry = "powerHintAsync_1_3") =>
              SameAs(powerHintAsync_1_2(last.hint, last.data, last.gov, pre.ready, PreFlags))
        /\ last.hint \notin (LowKinds \cup Kinds_1_2 \cup {"EXPENSIVE_RENDERING"}) =>
              /\ calls = <<>>
              /\ ihCalls = <<>>
              /\ NothingChanged

C15_Witness ==
    /\ Passed
    /\ last.entry = "powerHintAsync_1_3" /\ last.hint = "VR_MODE" /\ last.data = 1
    /\ pre.sus /\ ~pre.vr
    /\ calls = <<EndHint("SUSTAINED_PERFORMANCE"), DoHint("VR_SUSTAINED_PERFORMANCE")>>
    /\ mVRModeOn /\ mSustainedPerfModeOn

----------------------------------------------------------------------------
AllOff == [vr |-> FALSE, sus |-> FALSE, cam |-> FALSE]

\* hints a mode stands for in the HintManager
ModeHintNames == ModeNames \cup {"CAMERA_STREAMING"}

ModeActive(a) == a \cap ModeHintNames

\* the synthetic requests matching a persisted mode
SyntheticRequests(state) ==
    CASE state = "CAMERA_STREAMING" ->
            <<[entry |-> "powerHintAsync_1_2", hint |-> "CAMERA_STREAMING", data |-> 1]>>
      [] state = "SUSTAINED_PERFORMANCE" ->
            <<[entry |-> "powerHint", hint |-> "SUSTAINED_PERFORMANCE", data |-> 1]>>
      [] state = "VR_MODE" ->
            <<[entry |-> "powerHint", hint |-> "VR_MODE", data |-> 1]>>
      [] state = "VR_SUSTAINED_PERFORMANCE" ->
            <<[entry |-> "powerHint", hint |-> "VR_MODE", data |-> 1],
              [entry |-> "powerHint", hint |-> "SUSTAINED_PERFORMANCE", data |-> 1]>>
      [] OTHER -> <<>>

\* flags and held hints after the handlers took the requests rs in order,
\* ready and under a supported governor
RECURSIVE Handle(_, _, _)
Handle(rs, s, a) ==
    IF rs = <<>> THEN [s |-> s, active |-> a]
    ELSE LET r == Dispatch(Head(rs).entry, Head(rs).hint, Head(rs).data,
                           "schedutil", TRUE, s)
         IN  Handle(Tail(rs), r.s, ApplyCalls(a, r.calls))

\* C16: the persisted mode is replayed once, by at most one activation of a
\* mode hint, and from then until mReady becomes true the mode flags and the
\* held mode hints are those the matching synthetic request(s) give from the
\* all-false state with nothing held.
C16_ReplayEquivalence ==
    [][/\ \A state \in StateProps :
             (initPc = "state" /\ initPc' = "audio" /\ InitStateFor(state)) =>
                LET h == Handle(SyntheticRequests(state), AllOff, {}) IN
                /\ Flags = AllOff /\ active = {}
                /\ Flags' = h.s
                /\ ModeActive(active') = ModeActive(h.active)
                /\ Cardinality(active') <= 1
       /\ initPc \in {"audio", "rendering", "ready"} =>
             /\ Flags' = Flags
             /\ ModeActive(active') = ModeActive(active)
       /\ initPc \in {"audio", "rendering", "ready", "done", "fatal"} => initPc' # "state"
       /\ (mReady' /\ ~mReady) => initPc = "ready"]_vars

C16_Witness ==
    /\ initPc = "ready" /\ ~mReady
    /\ mVRModeOn /\ mSustainedPerfModeOn /\ ~mCameraStreamingModeOn
    /\ ModeActive(active) = {"VR_SUSTAINED_PERFORMANCE"}
    /\ "AUDIO_LOW_LATENCY" \in active

----------------------------------------------------------------------------
\* C17: an AUDIO_STREAMING request handled while mVRModeOn and
\* mSustainedPerfModeOn are both false issues exactly one HintManager call:
\* payload 1 activates AUDIO_STREAMING without duration, 0 deactivates it,
\* 1001 activates TPU_BOOST for 200 ms, 1002 activates TPU_BOOST for 2000 ms,
\* 1000 deactivates TPU_BOOST; no mode flag changes.
C17_AudioStreamingPayloads ==
    (Passed /\ last.hint = "AUDIO_STREAMING" /\ ~pre.vr /\ ~pre.sus) =>
        /\ last.data = 1 => calls = <<DoHint("AUDIO_STREAMING")>>
        /\ last.data = 0 => calls = <<EndHint("AUDIO_STREAMING")>>
        /\ last.data = 1001 => calls = <<DoHintFor("TPU_BOOST", 200)>>
        /\ last.data = 1002 => calls = <<DoHintFor("TPU_BOOST", 2000)>>
        /\ last.data = 1000 => calls = <<EndHint("TPU_BOOST")>>
        /\ last.data \in {0, 1, 1000, 1001, 1002} =>
              /\ Len(calls) = 1
              /\ active = ApplyCalls(pre.active, calls)
        /\ ihCalls = <<>>
        /\ Flags = PreFlags

C17_Witness ==
    /\ Passed /\ last.hint = "AUDIO_STREAMING" /\ last.data = 1002
    /\ ~pre.vr /\ ~pre.sus /\ pre.cam
    /\ calls = <<DoHintFor("TPU_BOOST", 2000)>>

----------------------------------------------------------------------------
\* C18: whenever mReady is true the HintManager and the InteractionHandler
\* exist and the init thread has finished its replay and seeding, so a
\* handler is past its gate only when the init thread is done; when the
\* config cannot be loaded the process stops there: no step follows and
\* mReady is never true.
C18_InitBeforeRequests ==
    /\ [](/\ mReady => (mHintManager /\ mInteractionHandler /\ initPc = "done")
          /\ \A t \in Threads : pc[t] # "idle" => (mReady /\ initPc = "done")
          /\ initPc = "fatal" => (~mReady /\ ~mHintManager /\ ~mInteractionHandler))
    /\ [][/\ initPc # "fatal"
          /\ (\E t \in Threads : pc'[t] # pc[t]) => UNCHANGED initPc
          /\ initPc' # initPc => UNCHANGED <<pc, req, tlog>>]_vars

C18_Witness ==
    /\ mReady /\ initPc = "done"
    /\ pc[1] = "cs_boost"
    /\ "EXPENSIVE_RENDERING" \in active /\ mVRModeOn

----------------------------------------------------------------------------
\* hints whose requests are dropped while VR or sustained mode is on
SuppressedHints == {"LAUNCH", "AUDIO_STREAMING", "TPU_BOOST", "EXPENSIVE_RENDERING"}

\* hint kinds of SuppressedHints that are held until ended
HeldKinds == {"LAUNCH", "AUDIO_STREAMING", "EXPENSIVE_RENDERING"}

\* LAUNCH(1), VR_MODE(1), LAUNCH(0), VR_MODE(0) from the all-false state
LaunchThroughVR ==
    Handle(<<[entry |-> "powerHint", hint |-> "LAUNCH", data |-> 1],
             [entry |-> "powerHint", hint |-> "VR_MODE", data |-> 1],
             [entry |-> "powerHint", hint |-> "LAUNCH", data |-> 0],
             [entry |-> "powerHint", hint |-> "VR_MODE", data |-> 0]>>, AllOff, {})

\* C19: a VR_MODE or SUSTAINED_PERFORMANCE request issues no EndHint for
\* LAUNCH, AUDIO_STREAMING, TPU_BOOST or EXPENSIVE_RENDERING; a disable
\* request for one of them handled while mVRModeOn or mSustainedPerfModeOn is
\* true is dropped; so such a hint, once held, stays held (as through
\* LAUNCH(1), VR_MODE(1), LAUNCH(0), VR_MODE(0)) until a disable request for
\* it is handled while both flags are false.
C19_SuppressedEndKeepsHint ==
    /\ (Passed /\ last.hint \in {"VR_MODE", "SUSTAINED_PERFORMANCE"}) =>
          /\ \A i \in 1..Len(calls) :
                ~(calls[i].op = "EndHint" /\ calls[i].name \in SuppressedHints)
          /\ active \cap SuppressedHints = pre.active \cap SuppressedHints
    /\ (Passed /\ last.hint \in HeldKinds /\ last.data <= 0 /\ (pre.vr \/ pre.sus)) =>
          (calls = <<>> /\ active = pre.active)
    /\ Done =>
          \A h \in HeldKinds :
              (h \in pre.active /\ h \notin active) =>
                  /\ Passed /\ last.hint = h /\ last.data <= 0
                  /\ ~pre.vr /\ ~pre.sus
                  /\ calls = <<EndHint(h)>>
    /\ LaunchThroughVR.s = AllOff
    /\ LaunchThroughVR.active = {"LAUNCH"}

C19_Witness ==
    /\ Passed /\ last.hint = "LAUNCH" /\ last.data = 0
    /\ pre.vr /\ ~pre.sus
    /\ "LAUNCH" \in pre.active /\ "LAUNCH" \in active
    /\ calls = <<>>

----------------------------------------------------------------------------
\* the request handled last was a valid CAMERA_STREAMING request
CameraStreamingHandled == Passed /\ last.hint = "CAMERA_STREAMING" /\ last.data >= 0

\* what the request handled last gives when only mCameraStreamingModeOn differs
WithOtherCam ==
    Dispatch(last.entry, last.hint, last.data, last.gov, pre.ready,
             [PreFlags EXCEPT !.cam = ~pre.cam])

\* C20: with requests handled one at a time mCameraStreamingModeOn is true
\* exactly when the CAMERA_STREAMING hint is held; only a valid
\* CAMERA_STREAMING request and the startup replay write it, every other
\* request leaves it unchanged, and its value changes neither the calls nor
\* the other flags of any request.
C20_CameraFlagIsolated ==
    /\ [](/\ mCameraStreamingModeOn <=> ("CAMERA_STREAMING" \in active)
          /\ CameraStreamingHandled => (mCameraStreamingModeOn <=> (last.data > 0))
          /\ (last # NoRequest /\ ~CameraStreamingHandled) =>
                /\ mCameraStreamingModeOn = pre.cam
                /\ ("CAMERA_STREAMING" \in active) = ("CAMERA_STREAMING" \in pre.active)
          /\ Done =>
                /\ calls = WithOtherCam.calls
                /\ mVRModeOn = WithOtherCam.s.vr
                /\ mSustainedPerfModeOn = WithOtherCam.s.sus)
    /\ [][mCameraStreamingModeOn' # mCameraStreamingModeOn =>
             \/ initPc = "state" /\ initPc' = "audio"
             \/ last = NoRequest /\ last'.hint = "CAMERA_STREAMING"]_vars

C20_Witness ==
    /\ CameraStreamingHandled /\ last.data = 0
    /\ pre.cam /\ pre.vr /\ "CAMERA_STREAMING" \in pre.active
    /\ ~mCameraStreamingModeOn /\ "CAMERA_STREAMING" \notin active
    /\ mVRModeOn

====
